---------------------------- MODULE Spec2Model ----------------------------
(***************************************************************************)
(* The `ecs exec` command of facilitate: the resolution pipeline           *)
(*   list_tasks -> describe_tasks -> describe_container_instances ->       *)
(*   describe_instances -> list prompt -> confirm prompt -> ssh            *)
(* of src/facilitate/ecs.py (helpers called from exec) and of src/ecs.py   *)
(* (the same pipeline written inline).  One run of the command is one      *)
(* behaviour; every blocking call to a collaborator (AWS client, prompt,   *)
(* subprocess) is one action whose answer is drawn from a bounded set.     *)
(***************************************************************************)
EXTENDS Integers, Sequences, FiniteSets, TLC

VARIABLES
    impl,                    \* which of the two source files is running
    container,               \* CLI: target container name
    command,                 \* CLI: the nargs=-1 tuple of command words
    pc,                      \* position of the run inside exec
    container_task_arns,     \* local of exec
    container_instance_arns, \* local of exec
    container_instance_ids,  \* local of exec
    container_instance_ips,  \* local of exec
    target_instance_ip,      \* local of exec
    should_exec,             \* answer of the confirm prompt
    response,                \* what the last collaborator call returned
    calls,                   \* log of collaborator calls, in order
    stdout,                  \* lines written with click.echo
    exception,               \* uncaught exception that ended the run, "" if none
    result,                  \* return value of exec, NoValue while none
    exit_status              \* exit status of the process, NoValue while running

vars == <<impl, container, command, pc, container_task_arns,
          container_instance_arns, container_instance_ids,
          container_instance_ips, target_instance_ip, should_exec,
          response, calls, stdout, exception, result, exit_status>>

----------------------------------------------------------------------------
(* Bounds of the model *)

MaxTasks == 2          \* longest taskArns list and longest tasks list
MaxHosts == 2          \* longest containerInstances list
MaxReservations == 2   \* longest Reservations list

(* Values the inputs are drawn from *)

Facilitate == "src/facilitate/ecs.py"
Legacy == "src/ecs.py"
Impls == {Facilitate, Legacy}

NoValue == -1

Cluster == "cluster"
Service == "service"
DefaultUser == "ec2-user"
DefaultIdentityFile == "~/.ssh/id_rsa"

ContainerNames == {"api", "API"}
Commands == {<<"echo", "hi">>, <<"ls">>}
RemoteExitCodes == {0, 1, 127}

SeqsUpTo(S, n) == UNION {[1..k -> S] : k \in 0..n}

\* list_tasks answers: t1..tk for k in 0..MaxTasks
TaskArnLists == {[i \in 1..k |-> "t" \o ToString(i)] : k \in 0..MaxTasks}

\* describe_tasks answers: lists of task descriptions
TaskCatalogue ==
    { [containers |-> <<[name |-> "api"]>>, containerInstanceArn |-> "ci-1"],
      [containers |-> <<[name |-> "web"], [name |-> "api"]>>,
                                            containerInstanceArn |-> "ci-2"],
      [containers |-> <<[name |-> "API"]>>, containerInstanceArn |-> "ci-1"],
      [containers |-> <<>>,                 containerInstanceArn |-> "ci-2"] }
TaskResponses == SeqsUpTo(TaskCatalogue, MaxTasks)

\* describe_container_instances answers
ContainerInstanceCatalogue ==
    { [ec2InstanceId |-> "i-1"], [ec2InstanceId |-> "i-2"] }
ContainerInstanceResponses == SeqsUpTo(ContainerInstanceCatalogue, MaxHosts)

\* describe_instances answers: reservations grouping instance records; an
\* instance without a public address has no PublicIpAddress key
InstanceA == [InstanceId |-> "i-1", PublicIpAddress |-> "10.0.0.5"]
InstanceB == [InstanceId |-> "i-2", PublicIpAddress |-> "10.0.0.6"]
InstanceC == [InstanceId |-> "i-3"]
ReservationCatalogue ==
    { [Instances |-> <<InstanceA>>],
      [Instances |-> <<InstanceB, InstanceA>>],
      [Instances |-> <<InstanceA, InstanceC>>],
      [Instances |-> <<>>] }
ReservationResponses == SeqsUpTo(ReservationCatalogue, MaxReservations)

----------------------------------------------------------------------------
(* Pure helpers *)

Range(s) == {s[i] : i \in DOMAIN s}

\* "".join(command): the separator is lost
RECURSIVE JoinNoSep(_, _)
JoinNoSep(sep, words) ==
    IF Len(words) = 0 THEN "" ELSE words[1] \o JoinNoSep(sep, Tail(words))

\* " ".join(command)
RECURSIVE Join(_, _)
Join(sep, words) ==
    IF Len(words) = 0 THEN ""
    ELSE IF Len(words) = 1 THEN words[1]
    ELSE words[1] \o sep \o Join(sep, Tail(words))

\* click.echo(click.style(f"  - {x}", fg="green")) for x in xs
EchoEach(xs) == [i \in 1..Len(xs) |-> "  - " \o xs[i]]

NoTasksMessage == "\nCould not find target tasks. Exiting!"
AbortMessage == "\nOperation aborted. Exiting!"

\* len(container_task_arns) == 0, with the comparison lost
NoTargetTasksNever(taskArns) == FALSE

\* len(container_task_arns) == 0
NoTargetTasks(taskArns) == Len(taskArns) = 0

\* sys.exit(1) when no task was found
NoTargetExit == 1

\* `if should_exec:` in place of `if not should_exec:`
DeclinedInverted(answer) == answer

\* if not should_exec
Declined(answer) == ~answer

\* sys.exit(1) in place of sys.exit(0)
AbortExitFailure == 1

\* sys.exit(0) after the abort notice
AbortExit == 0

\* truth value of a dict: non-empty
Truthy(c) == DOMAIN c # {}

\* only the first container of the task is looked at
HasTargetContainerFirst(t, name) ==
    Len(t.containers) > 0 /\ t.containers[1].name = name

\* any(c for c in t["containers"] if c["name"] == container)
HasTargetContainer(t, name) ==
    \E i \in DOMAIN t.containers :
        t.containers[i].name = name /\ Truthy(t.containers[i])

TasksWithTargetContainer(tasks, name) ==
    SelectSeq(tasks, LAMBDA t : HasTargetContainer(t, name))

\* [t["containerInstanceArn"] for t in tasks for c in t["containers"]]:
\* one entry per container instead of one per matching task
RECURSIVE ContainerInstanceArnsPerContainer(_, _)
ContainerInstanceArnsPerContainer(tasks, name) ==
    IF Len(tasks) = 0 THEN <<>>
    ELSE [i \in 1..Len(Head(tasks).containers) |-> Head(tasks).containerInstanceArn]
           \o ContainerInstanceArnsPerContainer(Tail(tasks), name)

\* [task["containerInstanceArn"] for task in tasks_with_target_container]
ContainerInstanceArns(tasks, name) ==
    LET tw == TasksWithTargetContainer(tasks, name)
    IN  [i \in 1..Len(tw) |-> tw[i].containerInstanceArn]

\* [ci["ec2InstanceId"] for ci in response["containerInstances"]]
ContainerInstanceIds(containerInstances) ==
    [i \in 1..Len(containerInstances) |-> containerInstances[i].ec2InstanceId]

\* list(chain(*[r["Instances"] for r in response["Reservations"]]))
RECURSIVE Instances(_)
Instances(reservations) ==
    IF Len(reservations) = 0 THEN <<>>
    ELSE Head(reservations).Instances \o Instances(Tail(reservations))

\* instance["PublicIpAddress"] raises KeyError when the key is absent
RaisesKeyError(instances) ==
    \E i \in DOMAIN instances : "PublicIpAddress" \notin DOMAIN instances[i]

\* [instance["PublicIpAddress"] for instance in instances]
ContainerInstanceIps(instances) ==
    [i \in 1..Len(instances) |-> instances[i].PublicIpAddress]

\* f"ssh -i ... docker exec -it $(docker ps -q -f name='-{container}-' ...) {command}"
ShellCommand(identity_file, user, instance_ip, cont, cmd) ==
    "ssh -i " \o identity_file \o " " \o user \o "@" \o instance_ip
      \o " -t 'bash -c \"docker exec -it $(docker ps -q -f name='-" \o cont
      \o "-' | head -n 1) " \o cmd \o "\"'"

\* ecs() run as a script: click runs the command in standalone mode, drops
\* the value the command returned and exits the process with status 0
StandaloneExit(rv) == 0

\* an uncaught exception ends the interpreter with status 1
UncaughtExit == 1

Call(op, arg, ok) == [op |-> op, arg |-> arg, ok |-> ok]

----------------------------------------------------------------------------
Init ==
    /\ impl \in Impls
    /\ container \in ContainerNames
    /\ command \in Commands
    /\ pc = "list_tasks"
    /\ container_task_arns = <<>>
    /\ container_instance_arns = <<>>
    /\ container_instance_ids = <<>>
    /\ container_instance_ips = <<>>
    /\ target_instance_ip = ""
    /\ should_exec = FALSE
    /\ response = <<>>
    /\ calls = <<>>
    /\ stdout = <<>>
    /\ exception = ""
    /\ result = NoValue
    /\ exit_status = NoValue

\* the failure is swallowed and the same call is made again
RaiseRetry(op, arg, exc) ==
    /\ calls' = Append(calls, Call(op, arg, FALSE))
    /\ UNCHANGED <<impl, container, command, pc, container_task_arns,
                   container_instance_arns, container_instance_ids,
                   container_instance_ips, target_instance_ip, should_exec,
                   response, stdout, exception, result, exit_status>>

\* the collaborator call `op` raised: nothing catches it, the process dies
Raise(op, arg, exc) ==
    /\ calls' = Append(calls, Call(op, arg, FALSE))
    /\ exception' = exc
    /\ pc' = "raised"
    /\ exit_status' = UncaughtExit
    /\ UNCHANGED <<impl, container, command, container_task_arns,
                   container_instance_arns, container_instance_ids,
                   container_instance_ips, target_instance_ip, should_exec,
                   response, stdout, result>>

\* Task Locator
get_container_task_arns ==
    /\ pc = "list_tasks"
    /\ \/ Raise("ListRunningTasks", <<Cluster, Service>>, "ClientError")
       \/ \E taskArns \in TaskArnLists :
            /\ calls' = Append(calls, Call("ListRunningTasks", <<Cluster, Service>>, TRUE))
            /\ response' = taskArns
            /\ container_task_arns' = taskArns
            /\ IF NoTargetTasks(taskArns)
               THEN /\ stdout' = Append(stdout, NoTasksMessage)
                    /\ pc' = "exited"
                    /\ exit_status' = NoTargetExit
               ELSE /\ stdout' = stdout \o EchoEach(taskArns)
                    /\ pc' = "describe_tasks"
                    /\ UNCHANGED exit_status
            /\ UNCHANGED <<impl, container, command, container_instance_arns,
                           container_instance_ids, container_instance_ips,
                           target_instance_ip, should_exec, exception, result>>

\* Placement Resolver
get_container_instance_arns ==
    /\ pc = "describe_tasks"
    /\ \/ Raise("DescribeTasks", container_task_arns, "ClientError")
       \/ \E tasks \in TaskResponses :
            /\ calls' = Append(calls, Call("DescribeTasks", container_task_arns, TRUE))
            /\ response' = tasks
            /\ container_instance_arns' = ContainerInstanceArns(tasks, container)
            /\ stdout' = stdout \o EchoEach(container_instance_arns')
            /\ pc' = "describe_container_instances"
            /\ UNCHANGED <<impl, container, command, container_task_arns,
                           container_instance_ids, container_instance_ips,
                           target_instance_ip, should_exec, exception, result,
                           exit_status>>

\* Host Identifier Resolver
get_container_instance_ids ==
    /\ pc = "describe_container_instances"
    /\ \/ Raise("DescribeHostingInstances", container_instance_arns, "ClientError")
       \/ \E containerInstances \in ContainerInstanceResponses :
            /\ calls' = Append(calls, Call("DescribeHostingInstances",
                                           container_instance_arns, TRUE))
            /\ response' = containerInstances
            /\ container_instance_ids' = ContainerInstanceIds(containerInstances)
            /\ stdout' = stdout \o EchoEach(container_instance_ids')
            /\ pc' = "describe_instances"
            /\ UNCHANGED <<impl, container, command, container_task_arns,
                           container_instance_arns, container_instance_ips,
                           target_instance_ip, should_exec, exception, result,
                           exit_status>>

\* Address Resolver
get_container_instance_ips ==
    /\ pc = "describe_instances"
    /\ \/ Raise("DescribeComputeHosts", container_instance_ids, "ClientError")
       \/ \E reservations \in ReservationResponses :
            /\ calls' = Append(calls, Call("DescribeComputeHosts",
                                           container_instance_ids, TRUE))
            /\ response' = reservations
            /\ IF RaisesKeyError(Instances(reservations))
               THEN /\ exception' = "KeyError"
                    /\ pc' = "raised"
                    /\ exit_status' = UncaughtExit
                    /\ UNCHANGED <<container_instance_ips, stdout>>
               ELSE /\ container_instance_ips' =
                            ContainerInstanceIps(Instances(reservations))
                    /\ stdout' = stdout \o EchoEach(container_instance_ips')
                    /\ pc' = "ask_target_instance_ip"
                    /\ UNCHANGED <<exception, exit_status>>
            /\ UNCHANGED <<impl, container, command, container_task_arns,
                           container_instance_arns, container_instance_ids,
                           target_instance_ip, should_exec, result>>

\* Target Selector: a list prompt returns one of its choices; over no
\* choices there is nothing to return and answering raises
ask_target_instance_ip ==
    /\ pc = "ask_target_instance_ip"
    /\ \/ /\ container_instance_ips = <<>>
          /\ Raise("TargetSelector", container_instance_ips, "IndexError")
       \/ \E i \in DOMAIN container_instance_ips :
            /\ calls' = Append(calls, Call("TargetSelector",
                                           container_instance_ips, TRUE))
            /\ response' = <<container_instance_ips[i]>>
            /\ target_instance_ip' = container_instance_ips[i]
            /\ pc' = "ask_should_exec"
            /\ UNCHANGED <<impl, container, command, container_task_arns,
                           container_instance_arns, container_instance_ids,
                           container_instance_ips, should_exec, stdout,
                           exception, result, exit_status>>

\* Confirmation Gate
ask_should_exec ==
    /\ pc = "ask_should_exec"
    /\ \E answer \in BOOLEAN :
         /\ calls' = Append(calls, Call("ConfirmationGate",
                  <<Join(" ", command), container, target_instance_ip>>, TRUE))
         /\ response' = <<answer>>
         /\ should_exec' = answer
         /\ IF Declined(answer)
            THEN /\ stdout' = Append(stdout, AbortMessage)
                 /\ IF impl = Facilitate
                    THEN \* sys.exit(0)
                         /\ pc' = "exited"
                         /\ exit_status' = AbortExit
                    ELSE \* return
                         /\ pc' = "returned"
                         /\ exit_status' = StandaloneExit(result)
            ELSE /\ stdout' = IF impl = Legacy THEN Append(stdout, "") ELSE stdout
                 /\ pc' = "exec"
                 /\ UNCHANGED exit_status
         /\ UNCHANGED <<impl, container, command, container_task_arns,
                        container_instance_arns, container_instance_ids,
                        container_instance_ips, target_instance_ip,
                        exception, result>>

\* Remote Executor: subprocess.call returns the exit code of the session,
\* exec returns it to click
exec_ ==
    /\ pc = "exec"
    /\ \E code \in RemoteExitCodes :
         /\ calls' = Append(calls, Call("RemoteExecutor",
                  <<DefaultIdentityFile, DefaultUser, target_instance_ip,
                    container, Join(" ", command),
                    ShellCommand(DefaultIdentityFile, DefaultUser,
                                 target_instance_ip, container,
                                 Join(" ", command))>>, TRUE))
         /\ response' = <<code>>
         /\ result' = code
         /\ pc' = "returned"
         /\ exit_status' = StandaloneExit(code)
         /\ UNCHANGED <<impl, container, command, container_task_arns,
                        container_instance_arns, container_instance_ids,
                        container_instance_ips, target_instance_ip,
                        should_exec, stdout, exception>>

Next ==
    \/ get_container_task_arns
    \/ get_container_instance_arns
    \/ get_container_instance_ids
    \/ get_container_instance_ips
    \/ ask_target_instance_ip
    \/ ask_should_exec
    \/ exec_

Spec == Init /\ [][Next]_vars

TypeOK ==
    /\ impl \in Impls
    /\ pc \in {"list_tasks", "describe_tasks", "describe_container_instances",
               "describe_instances", "ask_target_instance_ip",
               "ask_should_exec", "exec", "returned", "exited", "raised"}
    /\ exit_status \in {NoValue, 0, 1}
    /\ result \in RemoteExitCodes \cup {NoValue}
----------------------------------------------------------------------------
(* Vocabulary of the properties *)

StageOrder ==
    <<"ListRunningTasks", "DescribeTasks", "DescribeHostingInstances",
      "DescribeComputeHosts", "TargetSelector", "ConfirmationGate",
      "RemoteExecutor">>

ApiCalls ==
    {"ListRunningTasks", "DescribeTasks", "DescribeHostingInstances",
     "DescribeComputeHosts"}

Ops == [i \in DOMAIN calls |-> calls[i].op]

Invoked(op) == \E i \in DOMAIN calls : calls[i].op = op

\* the stage `op` was called and its call returned
Returned(op) == \E i \in DOMAIN calls : calls[i].op = op /\ calls[i].ok

Invocations(op) == Cardinality({i \in DOMAIN calls : calls[i].op = op})

IsPrefix(s, t) == Len(s) <= Len(t) /\ \A i \in DOMAIN s : s[i] = t[i]

\* a resolution stage returned and computed an output
Resolved(op) ==
    /\ Returned(op)
    /\ op = "DescribeComputeHosts" => exception = ""

\* the output of a resolution stage
StageOutput(op) ==
    CASE op = "ListRunningTasks" -> container_task_arns
      [] op = "DescribeTasks" -> container_instance_arns
      [] op = "DescribeHostingInstances" -> container_instance_ids
      [] op = "DescribeComputeHosts" -> container_instance_ips

Position(op) == CHOOSE i \in DOMAIN StageOrder : StageOrder[i] = op

----------------------------------------------------------------------------
\* C1: whenever a resolution stage (Task Locator, Placement Resolver, Host
\* Identifier Resolver, Address Resolver) has produced an empty sequence,
\* the run has ended there with a reported failure (non-zero exit status,
\* no later call), and no stage is ever called with zero candidates.
C1_EmptyOutputHaltsPipeline ==
    /\ \A op \in ApiCalls :
         (Resolved(op) /\ StageOutput(op) = <<>>) =>
            /\ pc = "exited"
            /\ exit_status \notin {NoValue, 0}
            /\ Len(calls) = Position(op)
    /\ \A i \in DOMAIN calls :
         calls[i].op \in {"DescribeTasks", "DescribeHostingInstances",
                          "DescribeComputeHosts", "TargetSelector"}
            => calls[i].arg # <<>>

\* C2: once the operator has answered "no" at the Confirmation Gate the
\* Remote Executor has zero invocations, the run is over and the exit
\* status is 0.
C2_DeclineSkipsRemoteExecutor ==
    (Returned("ConfirmationGate") /\ ~should_exec) =>
        /\ Invocations("RemoteExecutor") = 0
        /\ pc \in {"exited", "returned"}
        /\ exit_status = 0

\* C2 witness: two addresses were resolved, the second one was selected and
\* the operator answered "no".
C2_Witness ==
    /\ Returned("ConfirmationGate") /\ ~should_exec
    /\ Len(container_instance_ips) >= 2
    /\ target_instance_ip = container_instance_ips[2]
    /\ container_instance_ips[1] # container_instance_ips[2]

\* the addresses of the host records that have one, in response order
RECURSIVE AddressesOf(_)
AddressesOf(instances) ==
    IF Len(instances) = 0 THEN <<>>
    ELSE (IF "PublicIpAddress" \in DOMAIN Head(instances)
          THEN <<Head(instances).PublicIpAddress>> ELSE <<>>)
         \o AddressesOf(Tail(instances))

\* all host records of a DescribeComputeHosts response
RECURSIVE HostRecords(_)
HostRecords(reservations) ==
    IF Len(reservations) = 0 THEN <<>>
    ELSE LET r == reservations[Len(reservations)]
         IN  HostRecords(SubSeq(reservations, 1, Len(reservations) - 1))
               \o r.Instances

\* C3: when DescribeComputeHosts has returned, the Address Resolver has not
\* crashed and its output is exactly the addresses of the host records of
\* the response that have a public address.
C3_MissingAddressExcluded ==
    (Returned("DescribeComputeHosts") /\ calls[Len(calls)].op = "DescribeComputeHosts") =>
        /\ exception = ""
        /\ pc = "ask_target_instance_ip"
        /\ container_instance_ips = AddressesOf(HostRecords(response))

\* C4: when the Remote Executor has run to completion the exit status of
\* the process is the exit code the remote session returned.
C4_ExitStatusIsRemoteExitCode ==
    Returned("RemoteExecutor") =>
        /\ result = response[1]
        /\ exit_status = response[1]

\* C5: when ListRunningTasks has succeeded with an empty list the process
\* has exited with status 1 and ListRunningTasks is the only call made.
C5_NoTasksExitsWithOne ==
    (Returned("ListRunningTasks") /\ container_task_arns = <<>>) =>
        /\ pc = "exited"
        /\ exit_status = 1
        /\ Ops = <<"ListRunningTasks">>
        /\ \A op \in Range(StageOrder) \ {"ListRunningTasks"} :
              Invocations(op) = 0

\* C5 witness: ListRunningTasks answered with the empty list.
C5_Witness ==
    /\ Returned("ListRunningTasks")
    /\ response = <<>>
    /\ container_task_arns = <<>>
    /\ exit_status = 1

\* the hosting-instance identifiers of the tasks that run a container named
\* `name`, one per such task, in response order
RECURSIVE PlacementsOf(_, _)
PlacementsOf(tasks, name) ==
    IF Len(tasks) = 0 THEN <<>>
    ELSE LET t == Head(tasks)
             names == {t.containers[i].name : i \in DOMAIN t.containers}
         IN  (IF name \in names THEN <<t.containerInstanceArn>> ELSE <<>>)
               \o PlacementsOf(Tail(tasks), name)

\* C6: when the Placement Resolver has returned, its output is, in response
\* order and without deduplication, the hosting-instance identifier of
\* exactly the tasks of the DescribeTasks response that have a container
\* whose name equals the target name.
C6_PlacementFilter ==
    pc = "describe_container_instances" =>
        container_instance_arns = PlacementsOf(response, container)

\* C6 witness: the response holds a task with a container of the target
\* name after the first position of its container list, and a task whose
\* only container differs from the target name in case alone; the first
\* contributes and the second does not.
C6_Witness ==
    /\ pc = "describe_container_instances"
    /\ container = "api"
    /\ response = << [containers |-> <<[name |-> "API"]>>,
                      containerInstanceArn |-> "ci-1"],
                     [containers |-> <<[name |-> "web"], [name |-> "api"]>>,
                      containerInstanceArn |-> "ci-2"] >>
    /\ container_instance_arns = <<"ci-2">>

\* the command line the operator typed, as one string
CommandLine(words) ==
    CASE words = <<"echo", "hi">> -> "echo hi"
      [] words = <<"ls">> -> "ls"

\* C7: whenever the Remote Executor is invoked, its address is an element
\* of the Address Resolver's output, the Target Selector was given that
\* output and it was non-empty, and the container name and the command are
\* the ones of the command line.
C7_SelectionFromAddresses ==
    \A i \in DOMAIN calls :
        calls[i].op = "RemoteExecutor" =>
            /\ calls[i].arg[3] \in Range(container_instance_ips)
            /\ \E j \in 1..(i - 1) :
                  /\ calls[j].op = "TargetSelector"
                  /\ calls[j].arg = container_instance_ips
                  /\ calls[j].arg # <<>>
            /\ calls[i].arg[4] = container
            /\ calls[i].arg[5] = CommandLine(command)

\* C7 witness: the Remote Executor ran on the second of two different
\* addresses with a command of two words.
C7_Witness ==
    /\ Invoked("RemoteExecutor")
    /\ Len(container_instance_ips) >= 2
    /\ container_instance_ips[1] # container_instance_ips[2]
    /\ calls[Len(calls)].arg[3] = container_instance_ips[2]
    /\ command = <<"echo", "hi">>

\* C8: a failed API call is the last call of the run: the run has ended
\* with a failure status, the call was made once, and nothing follows it.
C8_TransportFailureIsFatal ==
    \A i \in DOMAIN calls :
        (calls[i].op \in ApiCalls /\ ~calls[i].ok) =>
            /\ i = Len(calls)
            /\ pc = "raised"
            /\ exit_status \notin {NoValue, 0}
            /\ Invocations(calls[i].op) = 1

\* C8 witness: DescribeHostingInstances failed after two successful calls.
C8_Witness ==
    /\ Len(calls) = 3
    /\ calls[3].op = "DescribeHostingInstances"
    /\ ~calls[3].ok
    /\ calls[1].ok /\ calls[2].ok

\* C9: the calls of a run are a prefix of the seven stages in their fixed
\* order (hence each at most once), every call but the last has returned,
\* and the Remote Executor is called only after a "yes".
C9_FixedStageOrder ==
    /\ IsPrefix(Ops, StageOrder)
    /\ \A i \in DOMAIN calls : i < Len(calls) => calls[i].ok
    /\ Invocations("RemoteExecutor") <= 1
    /\ (Invoked("RemoteExecutor") \/ pc = "exec") =>
            (Returned("ConfirmationGate") /\ should_exec)

\* C9 witness: a run that went through all seven stages.
C9_Witness == Ops = StageOrder

\* number of host records of a DescribeComputeHosts response
RECURSIVE CountHostRecords(_)
CountHostRecords(reservations) ==
    IF Len(reservations) = 0 THEN 0
    ELSE Len(Head(reservations).Instances) + CountHostRecords(Tail(reservations))

=============================================================================
